---- MODULE Spec2Model ----
(***************************************************************************)
(* Model of the sequential multi-agent workflow of src/fin_agents.py:      *)
(* FinanceMultiAgent.get_financial_advice builds a FinanceState dict,      *)
(* runs the five LangGraph nodes wired by create_workflow and returns      *)
(* final_state["final_recommendation"].                                    *)
(*                                                                         *)
(* Texts are sequences of tokens, so that the f-strings of the code are    *)
(* concatenations.  The external collaborators (the four react agents and  *)
(* the llm) are the environment: each call is issued in one step and is    *)
(* answered (messages, or an exception) in a later step.                   *)
(***************************************************************************)
EXTENDS Naturals, Sequences, FiniteSets, TLC

\* ------------------------------------------------------------------ bounds

\* longest "messages" list an agent answers with (0 = an empty list)
MaxMsgs == 2

\* callers of get_financial_advice on the one FinanceMultiAgent object
Callers == {"c1", "c2"}

\* message / generated texts: the empty text and a non-empty one
Text == {<<>>, <<"a">>}

\* queries the Driver passes: main() strips its input and drops empty ones
Queries == {<<"q">>, <<"a">>}

\* ------------------------------------------------------- FinanceState keys

StageSlots == {"portfolio_analysis", "budget_analysis", "market_data", "risk_assessment"}

Keys == {"query", "user_profiles", "final_recommendation"} \cup StageSlots

\* ------------------------------------------------------------ the workflow

StageNodes == {"portfolio_analysis", "budget_analysis", "market_research", "risk_assessment"}

END == "__end__"

\* workflow.set_entry_point
EntryPoint == "portfolio_analysis"

\* the edges with budget_analysis and market_research exchanged
EdgeToSwapped(n) ==
    CASE n = "portfolio_analysis" -> "market_research"
      [] n = "market_research"    -> "budget_analysis"
      [] n = "budget_analysis"    -> "risk_assessment"
      [] n = "risk_assessment"    -> "coordinator"
      [] n = "coordinator"        -> END

\* workflow.add_edge(a, b)
EdgeTo(n) ==
    CASE n = "portfolio_analysis" -> "budget_analysis"
      [] n = "budget_analysis"    -> "market_research"
      [] n = "market_research"    -> "risk_assessment"
      [] n = "risk_assessment"    -> "coordinator"
      [] n = "coordinator"        -> END

\* the agent attribute each stage node invokes
AgentOf(n) ==
    CASE n = "portfolio_analysis" -> "portfolio_agent"
      [] n = "budget_analysis"    -> "budget_agent"
      [] n = "market_research"    -> "market_research_agent"
      [] n = "risk_assessment"    -> "risk_assessment_agent"

\* the thread_id of market_research_node pasted into risk_assessment_node
ThreadIdPasted(n) ==
    CASE n = "portfolio_analysis" -> "portfolio_agent"
      [] n = "budget_analysis"    -> "budget_agent"
      [] n = "market_research"    -> "market_agent"
      [] n = "risk_assessment"    -> "market_agent"

\* config = {"configurable": {"thread_id": ...}} of each stage node
ThreadId(n) ==
    CASE n = "portfolio_analysis" -> "portfolio_agent"
      [] n = "budget_analysis"    -> "budget_agent"
      [] n = "market_research"    -> "market_agent"
      [] n = "risk_assessment"    -> "risk_agent"

\* the key each stage node assigns
SlotOf(n) ==
    CASE n = "portfolio_analysis" -> "portfolio_analysis"
      [] n = "budget_analysis"    -> "budget_analysis"
      [] n = "market_research"    -> "market_data"
      [] n = "risk_assessment"    -> "risk_assessment"

\* the literal in front of {state['query']} in each HumanMessage
Prefix(n) ==
    CASE n = "portfolio_analysis" -> "Analyze this request: "
      [] n = "budget_analysis"    -> "Analyze this request: "
      [] n = "market_research"    -> "Research this request: "
      [] n = "risk_assessment"    -> "Assess risks for: "

\* an instruction that also carries the portfolio analysis written so far
InstructionWithAnalysis(n, st) == <<Prefix(n)>> \o st["query"] \o st["portfolio_analysis"]

\* f"<prefix>{state['query']}"
Instruction(n, st) == <<Prefix(n)>> \o st["query"]

\* ------------------------------------------------------- dict operations

\* d[k] = v on a Python dict: the key is added when it is absent
Assign(st, k, v) == [x \in (DOMAIN st) \cup {k} |-> IF x = k THEN v ELSE st[x]]

NA == <<"N/A">>

\* d.get(k, 'N/A')
Get(st, k) == IF k \in DOMAIN st THEN st[k] ELSE NA

\* messages[0]
First(s) == s[1]

\* messages[-1]
Last(s) == s[Len(s)]

\* the f-string with the budget and market values exchanged
PromptExchanged(st) ==
    <<"As a senior financial advisor, synthesize ... Original Query: ">> \o st["query"]
      \o <<"Portfolio Analysis: ">> \o Get(st, "portfolio_analysis")
      \o <<"Budget Analysis: ">>    \o Get(st, "market_data")
      \o <<"Market Research: ">>    \o Get(st, "budget_analysis")
      \o <<"Risk Assessment: ">>    \o Get(st, "risk_assessment")
      \o <<"Provide a clear, actionable financial recommendation with: 1. ... 4. Timeline for implementation">>

\* the f-string of coordinator_node
Prompt(st) ==
    <<"As a senior financial advisor, synthesize ... Original Query: ">> \o st["query"]
      \o <<"Portfolio Analysis: ">> \o Get(st, "portfolio_analysis")
      \o <<"Budget Analysis: ">>    \o Get(st, "budget_analysis")
      \o <<"Market Research: ">>    \o Get(st, "market_data")
      \o <<"Risk Assessment: ">>    \o Get(st, "risk_assessment")
      \o <<"Provide a clear, actionable financial recommendation with: 1. ... 4. Timeline for implementation">>

\* initial_state of get_financial_advice
InitialState(q) ==
    [k \in Keys |-> IF k = "query" THEN q ELSE <<>>]

\* ------------------------------------------------------------------ state

VARIABLES
    pc,        \* per caller: "idle", "ready", "calling", "done", "failed"
    node,      \* per caller: the graph node the run is at
    state,     \* per caller: the FinanceState dict of its run
    calls,     \* per caller: the external calls of its run, in order
    events,    \* per caller: call / return / raise of each node of its run
    writes,    \* per caller: the keys its run assigned, in order
    resp,      \* per caller: the answer to its latest external call
    returned,  \* per caller: what get_financial_advice returned
    handles    \* engine-wide: <<agent, thread_id>> of every dispatch so far

vars == <<pc, node, state, calls, events, writes, resp, returned, handles>>

NoState == [k \in {} |-> <<>>]

NoResult == <<"<no result>">>

\* the answer to an external call: none yet, an exception, an agent's
\* {"messages": msgs}, or the llm's message with its content
NoResp == [kind |-> "none"]

Raised == [kind |-> "raised"]

Messages(msgs) == [kind |-> "messages", msgs |-> msgs]

Content(out) == [kind |-> "content", content |-> out]

NoConfig == "<no config>"

\* every messages list an agent can answer with
MsgLists == UNION {[1..n -> Text] : n \in 0..MaxMsgs}

Init ==
    /\ pc = [c \in Callers |-> "idle"]
    /\ node = [c \in Callers |-> END]
    /\ state = [c \in Callers |-> NoState]
    /\ calls = [c \in Callers |-> <<>>]
    /\ events = [c \in Callers |-> <<>>]
    /\ writes = [c \in Callers |-> <<>>]
    /\ resp = [c \in Callers |-> NoResp]
    /\ returned = [c \in Callers |-> NoResult]
    /\ handles = {}

\* a run that keeps the record of the engine's latest run and sets only query
StartRunShared(c, q) ==
    /\ pc[c] \in {"idle", "done", "failed"}
    /\ pc' = [pc EXCEPT ![c] = "ready"]
    /\ node' = [node EXCEPT ![c] = EntryPoint]
    /\ \E d \in Callers :
          state' = [state EXCEPT ![c] =
                      IF state[d] = NoState THEN InitialState(q) ELSE Assign(state[d], "query", q)]
    /\ calls' = [calls EXCEPT ![c] = <<>>]
    /\ events' = [events EXCEPT ![c] = <<>>]
    /\ writes' = [writes EXCEPT ![c] = <<>>]
    /\ resp' = [resp EXCEPT ![c] = NoResp]
    /\ returned' = [returned EXCEPT ![c] = NoResult]
    /\ UNCHANGED handles

\* get_financial_advice up to app.invoke(initial_state): a new run of caller c
StartRun(c, q) ==
    /\ pc[c] \in {"idle", "done", "failed"}
    /\ pc' = [pc EXCEPT ![c] = "ready"]
    /\ node' = [node EXCEPT ![c] = EntryPoint]
    /\ state' = [state EXCEPT ![c] = InitialState(q)]
    /\ calls' = [calls EXCEPT ![c] = <<>>]
    /\ events' = [events EXCEPT ![c] = <<>>]
    /\ writes' = [writes EXCEPT ![c] = <<>>]
    /\ resp' = [resp EXCEPT ![c] = NoResp]
    /\ returned' = [returned EXCEPT ![c] = NoResult]
    /\ UNCHANGED handles

\* a stage node up to its blocking self.<agent>.invoke(...)
StageCall(c) ==
    /\ pc[c] = "ready"
    /\ node[c] \in StageNodes
    /\ pc' = [pc EXCEPT ![c] = "calling"]
    /\ calls' = [calls EXCEPT ![c] = Append(@,
            [target |-> AgentOf(node[c]),
             input  |-> Instruction(node[c], state[c]),
             config |-> ThreadId(node[c])])]
    /\ events' = [events EXCEPT ![c] = Append(@, <<"call", node[c]>>)]
    /\ resp' = [resp EXCEPT ![c] = NoResp]
    /\ handles' = handles \cup {<<AgentOf(node[c]), ThreadId(node[c])>>}
    /\ UNCHANGED <<node, state, writes, returned>>

\* a failure answered with the last stage result instead of the exception
FailPartial(c) ==
    /\ pc' = [pc EXCEPT ![c] = "failed"]
    /\ events' = [events EXCEPT ![c] = Append(@, <<"raise", node[c]>>)]
    /\ returned' = [returned EXCEPT ![c] = state[c]["risk_assessment"]]
    /\ UNCHANGED <<node, state, writes, calls, handles>>

\* a failed node that is run again
FailRetried(c) ==
    /\ pc' = [pc EXCEPT ![c] = "ready"]
    /\ events' = [events EXCEPT ![c] = Append(@, <<"raise", node[c]>>)]
    /\ UNCHANGED <<node, state, writes, returned, calls, handles>>

\* a node that swallows the exception and lets the graph go on
FailSwallowed(c) ==
    /\ pc' = [pc EXCEPT ![c] = "ready"]
    /\ node' = [node EXCEPT ![c] = EdgeTo(node[c])]
    /\ events' = [events EXCEPT ![c] = Append(@, <<"raise", node[c]>>)]
    /\ UNCHANGED <<state, writes, returned, calls, handles>>

\* the exception of a node propagates out of app.invoke and get_financial_advice
Fail(c) ==
    /\ pc' = [pc EXCEPT ![c] = "failed"]
    /\ events' = [events EXCEPT ![c] = Append(@, <<"raise", node[c]>>)]
    /\ UNCHANGED <<node, state, writes, returned, calls, handles>>

\* a wait that is given up: the graph goes on though the agent never answered
StageTimedOut(c) ==
    /\ pc[c] = "calling"
    /\ node[c] \in StageNodes
    /\ pc' = [pc EXCEPT ![c] = "ready"]
    /\ node' = [node EXCEPT ![c] = EdgeTo(node[c])]
    /\ UNCHANGED <<state, calls, events, writes, resp, returned, handles>>

\* the agent call raises
StageRaise(c) ==
    /\ pc[c] = "calling"
    /\ node[c] \in StageNodes
    /\ resp' = [resp EXCEPT ![c] = Raised]
    /\ Fail(c)

\* the agent call returns {"messages": msgs}; the rest of the stage node runs
\* and the graph follows the node's edge
StageReturn(c, msgs) ==
    /\ pc[c] = "calling"
    /\ node[c] \in StageNodes
    /\ resp' = [resp EXCEPT ![c] = Messages(msgs)]
    /\ IF msgs = <<>>
       THEN Fail(c)      \* response["messages"][-1] raises IndexError
       ELSE /\ state' = [state EXCEPT ![c] = Assign(@, SlotOf(node[c]), Last(msgs))]
            /\ writes' = [writes EXCEPT ![c] = Append(@, SlotOf(node[c]))]
            /\ events' = [events EXCEPT ![c] = Append(@, <<"return", node[c]>>)]
            /\ node' = [node EXCEPT ![c] = EdgeTo(node[c])]
            /\ pc' = [pc EXCEPT ![c] = "ready"]
            /\ UNCHANGED <<returned, calls, handles>>

\* coordinator_node up to its blocking llm.invoke([HumanMessage(content=prompt)])
CoordinatorCall(c) ==
    /\ pc[c] = "ready"
    /\ node[c] = "coordinator"
    /\ pc' = [pc EXCEPT ![c] = "calling"]
    /\ calls' = [calls EXCEPT ![c] = Append(@,
            [target |-> "llm", input |-> Prompt(state[c]), config |-> NoConfig])]
    /\ events' = [events EXCEPT ![c] = Append(@, <<"call", node[c]>>)]
    /\ resp' = [resp EXCEPT ![c] = NoResp]
    /\ UNCHANGED <<node, state, writes, returned, handles>>

\* llm.invoke raises
CoordinatorRaise(c) ==
    /\ pc[c] = "calling"
    /\ node[c] = "coordinator"
    /\ resp' = [resp EXCEPT ![c] = Raised]
    /\ Fail(c)

\* llm.invoke returns a message with content out; coordinator_node stores it, the
\* graph reaches END and get_financial_advice returns the final recommendation
CoordinatorReturn(c, out) ==
    /\ pc[c] = "calling"
    /\ node[c] = "coordinator"
    /\ resp' = [resp EXCEPT ![c] = Content(out)]
    /\ state' = [state EXCEPT ![c] = Assign(@, "final_recommendation", out)]
    /\ writes' = [writes EXCEPT ![c] = Append(@, "final_recommendation")]
    /\ events' = [events EXCEPT ![c] = Append(@, <<"return", node[c]>>)]
    /\ node' = [node EXCEPT ![c] = EdgeTo(node[c])]
    /\ pc' = [pc EXCEPT ![c] = "done"]
    /\ returned' = [returned EXCEPT ![c] = Assign(state[c], "final_recommendation", out)["final_recommendation"]]
    /\ UNCHANGED <<calls, handles>>

Next ==
    \E c \in Callers :
        \/ \E q \in Queries : StartRun(c, q)
        \/ StageCall(c)
        \/ StageRaise(c)
        \/ \E msgs \in MsgLists : StageReturn(c, msgs)
        \/ CoordinatorCall(c)
        \/ CoordinatorRaise(c)
        \/ \E out \in Text : CoordinatorReturn(c, out)

Spec == Init /\ [][Next]_vars

\* ------------------------------------------------- runs whose calls end

\* the steps the engine takes by itself: a node runs up to its blocking call
Proceed(c) == StageCall(c) \/ CoordinatorCall(c)

\* the steps of the collaborators: a pending call returns or raises
Answer(c) ==
    \/ StageRaise(c)
    \/ \E msgs \in MsgLists : StageReturn(c, msgs)
    \/ CoordinatorRaise(c)
    \/ \E out \in Text : CoordinatorReturn(c, out)

\* the one thread of main(), which calls get_financial_advice in a loop
Driver == "c1"

NextDriver ==
    \/ \E q \in Queries : StartRun(Driver, q)
    \/ Proceed(Driver)
    \/ Answer(Driver)

\* the runs of the Driver, one after the other: the synchronous code goes on
\* whenever it can, and every external call is answered in the end
SpecAnswered ==
    /\ Init
    /\ [][NextDriver]_vars
    /\ WF_vars(Proceed(Driver))
    /\ WF_vars(Answer(Driver))

\* ------------------------------------------ coordinator_node on any record

\* the records coordinator_node can be handed: a query, and any of the four
\* stage slots present (with any text) or absent
SynthInputs ==
    UNION {{st \in [D \cup {"query"} -> Text \cup Queries] :
                /\ st["query"] \in Queries
                /\ \A k \in D : st[k] \in Text} : D \in SUBSET StageSlots}

InitSynth ==
    /\ pc = [c \in Callers |-> IF c = "c1" THEN "ready" ELSE "idle"]
    /\ node = [c \in Callers |-> IF c = "c1" THEN "coordinator" ELSE END]
    /\ \E st \in SynthInputs : state = [c \in Callers |-> IF c = "c1" THEN st ELSE NoState]
    /\ calls = [c \in Callers |-> <<>>]
    /\ events = [c \in Callers |-> <<>>]
    /\ writes = [c \in Callers |-> <<>>]
    /\ resp = [c \in Callers |-> NoResp]
    /\ returned = [c \in Callers |-> NoResult]
    /\ handles = {}

NextSynth ==
    \E c \in Callers :
        \/ CoordinatorCall(c)
        \/ CoordinatorRaise(c)
        \/ \E out \in Text : CoordinatorReturn(c, out)

SpecSynth == InitSynth /\ [][NextSynth]_vars

\* ------------------------------------------------------------------ claims

\* s is a prefix of t
IsPrefix(s, t) == Len(s) <= Len(t) /\ SubSeq(t, 1, Len(s)) = s

\* the events of s that are not a raise
NoRaise(s) == SelectSeq(s, LAMBDA e : e[1] # "raise")

\* the targets of the calls of a run, in order
Targets(c) == [i \in 1..Len(calls[c]) |-> calls[c][i].target]

\* how often x occurs in the sequence s
Count(s, x) == Cardinality({i \in 1..Len(s) : s[i] = x})

FullOrder == <<"portfolio_analysis", "budget_analysis", "market_research",
               "risk_assessment", "coordinator">>

FullEvents ==
    [i \in 1..10 |-> <<IF i % 2 = 1 THEN "call" ELSE "return", FullOrder[(i + 1) \div 2]>>]

C2_StageFailureAborts ==
    \A c \in Callers :
        (node[c] \in StageNodes /\ (resp[c] = Raised \/ resp[c] = Messages(<<>>))) =>
            /\ pc[c] = "failed"
            /\ Count(writes[c], SlotOf(node[c])) = 0
            /\ state[c][SlotOf(node[c])] = <<>>
            /\ calls[c][Len(calls[c])].target = AgentOf(node[c])
            /\ Count(Targets(c), "llm") = 0
            /\ returned[c] = NoResult

C2_Witness ==
    \E c \in Callers :
        /\ node[c] = "budget_analysis"
        /\ resp[c] = Messages(<<>>)
        /\ pc[c] = "failed"

\* C3: the step of a stage that returns changes only that stage's own key of the
\* run's FinanceState, to the content of the last message of the answer; query,
\* the other three stage slots, final_recommendation and user_profiles keep
\* their values, and the step adds exactly its own slot to the keys written.
C3_StageWritesOwnSlot ==
    [][\A c \in Callers :
        (pc[c] = "calling" /\ node[c] \in StageNodes /\ pc'[c] = "ready") =>
            /\ resp'[c].kind = "messages"
            /\ DOMAIN state'[c] = DOMAIN state[c]
            /\ state'[c][SlotOf(node[c])] = resp'[c].msgs[Len(resp'[c].msgs)]
            /\ \A k \in Keys \ {SlotOf(node[c])} : state'[c][k] = state[c][k]
            /\ writes'[c] = Append(writes[c], SlotOf(node[c]))]_vars

C3_Witness ==
    \E c \in Callers :
        /\ pc[c] = "ready"
        /\ node[c] = "risk_assessment"
        /\ resp[c] = Messages(<< <<>>, <<"a">> >>)
        /\ state[c]["market_data"] = <<"a">>
        /\ state[c]["portfolio_analysis"] = <<>>
        /\ writes[c] = <<"portfolio_analysis", "budget_analysis", "market_data">>

AllWrites == <<"portfolio_analysis", "budget_analysis", "market_data",
               "risk_assessment", "final_recommendation">>

\* C4: in a run every key is assigned at most once, every agent and the llm are
\* called at most once (so nothing is retried, also after a failure), and a run
\* that completes has assigned each of the five keys and called each of the
\* four agents and the llm exactly once.
C4_WriteOnce ==
    \A c \in Callers :
        /\ \A k \in Keys : Count(writes[c], k) <= 1
        /\ \A i, j \in 1..Len(calls[c]) : calls[c][i].target = calls[c][j].target => i = j
        /\ pc[c] = "failed" => events[c][Len(events[c])][1] = "raise"
        /\ pc[c] = "done" =>
            /\ writes[c] = AllWrites
            /\ \A n \in StageNodes : Count(Targets(c), AgentOf(n)) = 1
            /\ Count(Targets(c), "llm") = 1

C4_Witness ==
    \E c \in Callers :
        /\ pc[c] = "done"
        /\ writes[c] = AllWrites
        /\ Len(calls[c]) = 5
        /\ \E d \in Callers : pc[d] = "failed" /\ Len(calls[d]) = 2

\* the prompts a run sent to the llm, in order
Prompts(c) == SelectSeq(calls[c], LAMBDA x : x.target = "llm")

\* part occurs in p at position i
OccursAt(p, part, i) ==
    /\ i >= 1
    /\ i + Len(part) - 1 <= Len(p)
    /\ SubSeq(p, i, i + Len(part) - 1) = part

\* the parts occur in p one after the other, without overlap, from position i on
RECURSIVE InOrderFrom(_, _, _)
InOrderFrom(p, parts, i) ==
    IF parts = <<>> THEN TRUE
    ELSE \E j \in i..(Len(p) + 1) :
            /\ OccursAt(p, Head(parts), j)
            /\ InOrderFrom(p, Tail(parts), j + Len(Head(parts)))

\* the query, then each stage value right after its label, in the fixed order
LabelledParts(q, P, B, M, R) ==
    <<q, <<"Portfolio Analysis: ">> \o P, <<"Budget Analysis: ">> \o B,
         <<"Market Research: ">> \o M, <<"Risk Assessment: ">> \o R>>

\* C5 (as claimed): once the llm has been called for a run, each of the four
\* stage slots the prompt was built from holds a non-empty text or the "N/A"
\* mark; none still holds the empty initial value.
C5_SlotsPopulatedAtSynthesis ==
    \A c \in Callers :
        Len(Prompts(c)) > 0 =>
            \A k \in StageSlots : Get(state[c], k) # <<>>

\* C6: the one prompt a run sends to the llm holds the query and then, each
\* right after its label, the four slot values unmodified in the order
\* portfolio, budget, market, risk; and a run that completes returns the llm's
\* output unchanged.
C6_PromptEmbedsAll ==
    \A c \in Callers :
        /\ Len(Prompts(c)) <= 1
        /\ \A i \in 1..Len(Prompts(c)) :
              InOrderFrom(Prompts(c)[i].input,
                          LabelledParts(state[c]["query"],
                                        state[c]["portfolio_analysis"],
                                        state[c]["budget_analysis"],
                                        state[c]["market_data"],
                                        state[c]["risk_assessment"]), 1)
        /\ pc[c] = "done" =>
              /\ resp[c].kind = "content"
              /\ returned[c] = resp[c].content

C6_Witness ==
    \E c \in Callers :
        /\ pc[c] = "done"
        /\ state[c]["query"] = <<"q">>
        /\ state[c]["portfolio_analysis"] = <<"a">>
        /\ state[c]["budget_analysis"] = <<>>
        /\ state[c]["market_data"] = <<"a">>
        /\ state[c]["risk_assessment"] = <<>>
        /\ returned[c] = <<"a">>

\* C7 (as claimed): the prompt coordinator_node builds shows "N/A" right after
\* the label of every stage slot that is absent from the record or holds the
\* empty value, and the node does not fail on such a record.
C7_SentinelRendered ==
    \A c \in Callers :
        \A i \in 1..Len(Prompts(c)) :
            InOrderFrom(Prompts(c)[i].input,
                LabelledParts(state[c]["query"],
                    IF Get(state[c], "portfolio_analysis") \in {<<>>, NA} THEN NA ELSE state[c]["portfolio_analysis"],
                    IF Get(state[c], "budget_analysis") \in {<<>>, NA} THEN NA ELSE state[c]["budget_analysis"],
                    IF Get(state[c], "market_data") \in {<<>>, NA} THEN NA ELSE state[c]["market_data"],
                    IF Get(state[c], "risk_assessment") \in {<<>>, NA} THEN NA ELSE state[c]["risk_assessment"]), 1)

\* C8: every dispatch to an agent carries that agent's one thread_id, whatever
\* the run; the thread_ids of different agents differ; the llm call of the
\* coordinator carries no thread_id.
C8_HandlePerRole ==
    /\ \A x, y \in handles : (x[1] = y[1]) <=> (x[2] = y[2])
    /\ \A x \in handles : x[2] # NoConfig
    /\ \A c \in Callers : \A i \in 1..Len(calls[c]) :
          IF calls[c][i].target = "llm"
          THEN calls[c][i].config = NoConfig
          ELSE <<calls[c][i].target, calls[c][i].config>> \in handles

C8_Witness ==
    /\ Cardinality(handles) = 4
    /\ \E c, d \in Callers :
          /\ c # d
          /\ pc[c] = "done"
          /\ Len(calls[d]) = 4
          /\ \A i \in 1..4 : calls[c][i].config = calls[d][i].config

\* the record of a run holds, in every key but query, the empty value or what
\* this run itself assigned
OwnValuesOnly(c) ==
    state[c] # NoState =>
        /\ DOMAIN state[c] = Keys
        /\ state[c]["query"] \in Queries
        /\ \A k \in Keys \ {"query"} : state[c][k] # <<>> => Count(writes[c], k) = 1

\* C9: every run starts on a new record with query set and the four stage
\* slots, final_recommendation and user_profiles empty, whatever the earlier
\* runs left behind; a step of one run leaves the record of every other run
\* as it is; so a record never holds a value that its own run did not assign.
C9_FreshRecordPerRun ==
    /\ [](\A c \in Callers : OwnValuesOnly(c))
    /\ [][\A c \in Callers :
            /\ (pc[c] \in {"idle", "done", "failed"} /\ pc'[c] = "ready") =>
                  /\ DOMAIN state'[c] = Keys
                  /\ state'[c]["query"] \in Queries
                  /\ \A k \in Keys \ {"query"} : state'[c][k] = <<>>
                  /\ writes'[c] = <<>>
            /\ pc'[c] = pc[c] => (state'[c] = state[c] /\ writes'[c] = writes[c])]_vars

C9_Witness ==
    \E c, d \in Callers :
        /\ c # d
        /\ pc[c] = "done"
        /\ state[c]["portfolio_analysis"] = <<"a">>
        /\ state[c]["final_recommendation"] = <<"a">>
        /\ pc[d] = "calling"
        /\ node[d] = "budget_analysis"
        /\ state[d]["portfolio_analysis"] = <<>>
        /\ state[d]["final_recommendation"] = <<>>

\* C10: a run either completes, with all four stages and the llm answered, and
\* returns the llm's output; or it has no result at all: a run that is not done
\* returned nothing, also when the llm call failed after all four stage slots
\* were written.
C10_BinaryOutcome ==
    \A c \in Callers :
        /\ pc[c] = "done" =>
              /\ returned[c] = state[c]["final_recommendation"]
              /\ returned[c] \in Text
              /\ NoRaise(events[c]) = events[c]
              /\ Len(calls[c]) = 5
        /\ pc[c] # "done" => returned[c] = NoResult
        /\ (node[c] = "coordinator" /\ resp[c] = Raised) =>
              /\ pc[c] = "failed"
              /\ returned[c] = NoResult

C10_Witness ==
    \E c \in Callers :
        /\ pc[c] = "failed"
        /\ node[c] = "coordinator"
        /\ resp[c] = Raised
        /\ \A k \in StageSlots : state[c][k] = <<"a">>
        /\ returned[c] = NoResult

\* the prefix the instruction of each agent starts with
StatedPrefix(agent) ==
    CASE agent = "portfolio_agent"       -> "Analyze this request: "
      [] agent = "budget_agent"          -> "Analyze this request: "
      [] agent = "market_research_agent" -> "Research this request: "
      [] agent = "risk_assessment_agent" -> "Assess risks for: "

\* the calls of a run that went to an agent
AgentCalls(c) == {i \in 1..Len(calls[c]) : calls[c][i].target # "llm"}

\* C11: the instruction of every agent call is the agent's fixed prefix followed
\* by the query of the run and nothing else; so two runs with the same query
\* hand the same instruction to the same agent, whatever the other stages of
\* either run answered: no stage sees the output of an earlier or later stage.
C11_InstructionFromQueryOnly ==
    /\ \A c \in Callers : \A i \in AgentCalls(c) :
          calls[c][i].input = <<StatedPrefix(calls[c][i].target)>> \o state[c]["query"]
    /\ \A c, d \in Callers : \A i \in AgentCalls(c) : \A j \in AgentCalls(d) :
          (state[c]["query"] = state[d]["query"] /\ calls[c][i].target = calls[d][j].target)
              => calls[c][i].input = calls[d][j].input

C11_Witness ==
    \E c, d \in Callers :
        /\ c # d
        /\ state[c] # NoState /\ state[d] # NoState
        /\ state[c]["query"] = state[d]["query"]
        /\ state[c]["portfolio_analysis"] = <<"a">>
        /\ state[d]["portfolio_analysis"] = <<>>
        /\ state[c]["budget_analysis"] = <<>>
        /\ state[d]["budget_analysis"] = <<"a">>
        /\ Len(calls[c]) = 4 /\ Len(calls[d]) = 4
        /\ \A i \in 1..4 : calls[c][i].input = calls[d][i].input

\* the calls of a run that have returned or raised
Answered(c) == Cardinality({i \in 1..Len(events[c]) : events[c][i][1] \in {"return", "raise"}})

\* a run in a blocking call: the call has no answer, nothing was returned and
\* the latest call is the one of the node the run is at
Blocked(c) ==
    /\ resp[c] = NoResp
    /\ returned[c] = NoResult
    /\ events[c][Len(events[c])] = <<"call", node[c]>>
    /\ Answered(c) = Len(calls[c]) - 1

\* C12: a run has ended (returned or failed) only when every call it issued was
\* answered, and a run whose calls all returned ends after exactly five calls,
\* four to the agents and one to the llm; a run waiting in a call changes only
\* by the answer to that call (nothing times out or cancels it: meanwhile no
\* later stage starts and there is no result); and when every call is
\* answered, every run ends.
C12_EndsIffCallsAnswered ==
    /\ [](\A c \in Callers :
            /\ pc[c] \in {"done", "failed"} => Answered(c) = Len(calls[c])
            /\ pc[c] = "done" =>
                  /\ Len(calls[c]) = 5
                  /\ Cardinality(AgentCalls(c)) = 4
                  /\ events[c][Len(events[c])] = <<"return", "coordinator">>
            /\ pc[c] = "calling" => Blocked(c))
    /\ [][\A c \in Callers :
            pc[c] = "calling" =>
                \/ /\ pc'[c] = "calling"
                   /\ node'[c] = node[c]
                   /\ state'[c] = state[c]
                   /\ calls'[c] = calls[c]
                   /\ returned'[c] = returned[c]
                \/ /\ pc'[c] \in {"ready", "done", "failed"}
                   /\ resp'[c].kind \in {"raised", "messages", "content"}
                   /\ calls'[c] = calls[c]]_vars
    /\ \A c \in Callers : (pc[c] \in {"ready", "calling"}) ~> (pc[c] \in {"done", "failed"})

C12_Witness ==
    \E c \in Callers :
        /\ pc[c] = "calling"
        /\ node[c] = "coordinator"
        /\ Len(calls[c]) = 5
        /\ Answered(c) = 4
        /\ \A k \in StageSlots : state[c][k] = <<"a">>
        /\ returned[c] = NoResult

====
